---- MODULE Spec2Model ----
(***************************************************************************)
(* OUTlook: the FileUpload component (two source variants) that parses an  *)
(* uploaded CSV, detects the domain column, normalizes each domain, looks  *)
(* up its MX records one row at a time and keeps the rows whose mail is    *)
(* not hosted on Outlook.                                                  *)
(*                                                                         *)
(* Strings are sequences of one-character strings, so that trim,           *)
(* toLowerCase, the regex replace, split and includes are computed.        *)
(***************************************************************************)
EXTENDS Integers, Sequences, FiniteSets, TLC

\* ------------------------------------------------------------------ bounds
MaxRows == 2
MaxTokens == 3
MaxUploads == 2
MaxRuns == 1

\* ----------------------------------------------------------------- strings
\* JS undefined / null: a value no character sequence equals.
undefined == <<"undefined">>
Null == <<"null">>

Upper == <<"A","B","C","D","E","F","G","H","I","J","K","L","M",
           "N","O","P","Q","R","S","T","U","V","W","X","Y","Z">>
Lower == <<"a","b","c","d","e","f","g","h","i","j","k","l","m",
           "n","o","p","q","r","s","t","u","v","w","x","y","z">>
WhiteSpace == {" ", "\t"}

\* the lower-case form of each upper-case letter
LowerOf == [c \in {Upper[k] : k \in DOMAIN Upper} |->
              Lower[CHOOSE k \in DOMAIN Upper : Upper[k] = c]]

LowerChar(c) == IF c \in DOMAIN LowerOf THEN LowerOf[c] ELSE c

\* String.prototype.toLowerCase
RECURSIVE toLowerCase(_)
toLowerCase(s) ==
  IF s = <<>> THEN <<>> ELSE <<LowerChar(Head(s))>> \o toLowerCase(Tail(s))

\* String.prototype.trim
trim(s) ==
  LET keep == {i \in DOMAIN s : s[i] \notin WhiteSpace}
  IN IF keep = {} THEN <<>>
     ELSE LET lo == CHOOSE i \in keep : \A j \in keep : i <= j
              hi == CHOOSE i \in keep : \A j \in keep : i >= j
          IN SubSeq(s, lo, hi)

\* does t occur in s starting at position p
HasAt(s, p, t) ==
  /\ p + Len(t) - 1 <= Len(s)
  /\ \A k \in 1..Len(t) : s[p + k - 1] = t[k]

\* String.prototype.includes
includes(s, t) == \E p \in 1..(Len(s) + 1) : HasAt(s, p, t)

tHttp == <<"h", "t", "t", "p", ":", "/", "/">>
tHttps == <<"h", "t", "t", "p", "s", ":", "/", "/">>
tWww == <<"w", "w", "w", ".">>

\* length of the match of /https?:\/\/|www\./ at position p, 0 if none
RegexMatchLen(s, p) ==
  IF HasAt(s, p, tHttps) THEN Len(tHttps)
  ELSE IF HasAt(s, p, tHttp) THEN Len(tHttp)
  ELSE IF HasAt(s, p, tWww) THEN Len(tWww)
  ELSE 0

\* s.replace(/https?:\/\/|www\./g, ""): one left-to-right pass, the
\* matches removed, the text between them copied
RECURSIVE replaceFrom(_, _)
replaceFrom(s, p) ==
  IF p > Len(s) THEN <<>>
  ELSE LET n == RegexMatchLen(s, p)
       IN IF n > 0 THEN replaceFrom(s, p + n)
          ELSE <<s[p]>> \o replaceFrom(s, p + 1)

replaceAll(s) == replaceFrom(s, 1)

\* s.split("/")[0]
splitFirst(s) ==
  LET sl == {i \in DOMAIN s : s[i] = "/"}
  IN IF sl = {} THEN s
     ELSE SubSeq(s, 1, (CHOOSE i \in sl : \A j \in sl : i <= j) - 1)

\* JS truthiness of a string-or-undefined value
Truthy(v) == v # undefined /\ v # Null /\ v # <<>>

normalizeDomain(domain) ==
  IF ~Truthy(domain) THEN undefined
  ELSE LET url == toLowerCase(trim(domain))
       IN splitFirst(replaceAll(url))

\* ------------------------------------------------------ column detection
\* variant 1: the literal list of the first FileUpload source
domainColumnNamesV1 ==
  << <<"d", "o", "m", "a", "i", "n">>,
     <<"w", "e", "b", "s", "i", "t", "e">>,
     <<"u", "r", "l">>,
     <<"W", "e", "b", "s", "i", "t", "e">>,
     <<"D", "o", "m", "a", "i", "n">>,
     <<"C", "o", "m", "p", "a", "n", "y", " ", "w", "e", "b", "s", "i", "t", "e">>,
     <<"c", "o", "m", "p", "a", "n", "y", " ", "d", "o", "m", "a", "i", "n">> >>

\* variant 2: the list of the second FileUpload source
domainColumnNames ==
  << <<"d", "o", "m", "a", "i", "n">>,
     <<"w", "e", "b", "s", "i", "t", "e">>,
     <<"u", "r", "l">>,
     <<"w", "e", "b", " ", "a", "d", "d", "r", "e", "s", "s">>,
     <<"c", "o", "m", "p", "a", "n", "y", " ", "w", "e", "b", "s", "i", "t", "e">>,
     <<"c", "o", "m", "p", "a", "n", "y", " ", "d", "o", "m", "a", "i", "n">>,
     <<"b", "u", "s", "i", "n", "e", "s", "s", " ", "w", "e", "b", "s", "i", "t", "e">>,
     <<"b", "u", "s", "i", "n", "e", "s", "s", " ", "d", "o", "m", "a", "i", "n">>,
     <<"D", "o", "m", "a", "i", "n">>,
     <<"W", "e", "b", "s", "i", "t", "e">>,
     <<"U", "R", "L">>,
     <<"W", "e", "b", " ", "A", "d", "d", "r", "e", "s", "s">>,
     <<"C", "o", "m", "p", "a", "n", "y", " ", "W", "e", "b", "s", "i", "t", "e">>,
     <<"C", "o", "m", "p", "a", "n", "y", " ", "D", "o", "m", "a", "i", "n">>,
     <<"w", "e", "b", "_", "s", "i", "t", "e">>,
     <<"w", "e", "b", "-", "s", "i", "t", "e">>,
     <<"w", "e", "b", ".", "a", "d", "d", "r", "e", "s", "s">>,
     <<"c", "o", "m", "p", "a", "n", "y", "_", "w", "e", "b", "s", "i", "t", "e">>,
     <<"c", "o", "m", "p", "a", "n", "y", ".", "w", "e", "b", "s", "i", "t", "e">>,
     <<"c", "o", "m", "p", "a", "n", "y", "d", "o", "m", "a", "i", "n">>,
     <<"b", "u", "s", "i", "n", "e", "s", "s", "w", "e", "b", "s", "i", "t", "e">>,
     <<"h", "o", "m", "e", "p", "a", "g", "e">>,
     <<"l", "a", "n", "d", "i", "n", "g", "_", "p", "a", "g", "e">>,
     <<"p", "r", "i", "m", "a", "r", "y", "_", "u", "r", "l">>,
     <<"r", "o", "o", "t", "_", "d", "o", "m", "a", "i", "n">>,
     <<"s", "i", "t", "e", "_", "u", "r", "l">>,
     <<"w", "e", "b", "s", "i", "t", "e", "_", "u", "r", "l">>,
     <<"c", "o", "r", "p", "o", "r", "a", "t", "e", "_", "s", "i", "t", "e">>,
     <<"c", "o", "r", "p", "o", "r", "a", "t", "e", "_", "u", "r", "l">>,
     <<"o", "r", "g", "a", "n", "i", "z", "a", "t", "i", "o", "n", "_", "u", "r", "l">>,
     <<"o", "r", "g", "a", "n", "i", "z", "a", "t", "i", "o", "n", "_", "s", "i", "t", "e">>,
     <<"c", "o", "m", "p", "a", "n", "y", "_", "u", "r", "l">>,
     <<"b", "u", "s", "i", "n", "e", "s", "s", "_", "u", "r", "l">> >>

\* Array.prototype.includes
arrayIncludes(arr, v) == \E i \in DOMAIN arr : arr[i] = v

\* Array.prototype.find with the column test: the first key whose
\* lower-cased form is in the list, else undefined
findColumn(keys, names) ==
  LET hit == {i \in DOMAIN keys : arrayIncludes(names, toLowerCase(keys[i]))}
  IN IF hit = {} THEN undefined
     ELSE keys[CHOOSE i \in hit : \A j \in hit : i <= j]

NamesOf(v) == IF v = 1 THEN domainColumnNamesV1 ELSE domainColumnNames

\* ------------------------------------------------------------- data model
kNormalizedDomain == <<"n", "o", "r", "m", "a", "l", "i", "z", "e", "d", "D", "o", "m", "a", "i", "n">>
kName == <<"N", "a", "m", "e">>
kEmail == <<"E", "m", "a", "i", "l">>
kCompanyWebsite == <<"C", "o", "m", "p", "a", "n", "y", " ", "W", "e", "b", "s", "i", "t", "e">>
kDomain == <<"D", "o", "m", "a", "i", "n">>
outlookToken == <<".", "o", "u", "t", "l", "o", "o", "k">>
recOutlook == <<"1", " ", "m", ".", "o", "u", "t", "l", "o", "o", "k", ".", "c", "o", "m", ".">>
recOther == <<"1", "0", " ", "m", "x", ".", "i", "s", "p", ".", "c", "o", "m", ".">>
recCaps == <<"1", " ", "m", ".", "O", "U", "T", "L", "O", "O", "K", ".", "c", "o", "m", ".">>
cellUrl == <<" ", "W", "W", "W", ".", "B", ".", "i", "o", "/", "p">>
cellWww == <<"w", "w", "w", ".">>
cellX == <<"x">>

\* A parsed line is the sequence of its cells; cell j belongs to column j of
\* the header (fields), and a line with too few cells lacks the trailing keys.

\* Object.keys(row)
Keys(fields, cells) == SubSeq(fields, 1, Len(cells))

\* row[k]
Get(fields, cells, k) ==
  IF \E i \in DOMAIN cells : fields[i] = k
    THEN cells[CHOOSE i \in DOMAIN cells : fields[i] = k]
    ELSE undefined

\* the headers and cells the uploaded files are built from
Headers == { <<kName, kEmail>>, <<kName, kCompanyWebsite, kDomain>> }
FillerKeys == {kName, kEmail}
DomainCells == {undefined, <<>>, cellUrl, cellWww}

MakeRow(header, d) ==
  LET cells == [i \in DOMAIN header |-> IF header[i] \in FillerKeys THEN cellX ELSE d]
      missing == {i \in DOMAIN cells : cells[i] = undefined}
  IN IF missing = {} THEN cells
     ELSE SubSeq(cells, 1, (CHOOSE i \in missing : \A j \in missing : i <= j) - 1)

\* skipEmptyLines: no parsed line is empty
RowsFor(header) == {MakeRow(header, d) : d \in DomainCells} \ {<<>>}

\* a File object is a handle; what it holds is known once it is read
NoFile == [null |-> TRUE, id |-> 0]
FileOf(n) == [null |-> FALSE, id |-> n]

\* ParseResult: meta.fields and data, of at most MaxRows lines
ResultsOf(h) ==
  {[fields |-> h, data |-> r] :
     r \in UNION {[1..n -> RowsFor(h)] : n \in 0..MaxRows}}
ParseResults == UNION {ResultsOf(h) : h \in Headers}
NotRead == [id |-> 0, fields |-> <<>>, data |-> <<>>]

\* MXRecordResponse as delivered by axios.get, or its rejection
NoResponse == [status |-> "none", hasAnswer |-> FALSE, Answer |-> <<>>]
Rejected == [status |-> "rejected", hasAnswer |-> FALSE, Answer |-> <<>>]
Resolved ==
  {[status |-> "resolved", hasAnswer |-> FALSE, Answer |-> <<>>]} \cup
  {[status |-> "resolved", hasAnswer |-> TRUE, Answer |-> a] :
     a \in { <<>>, <<[data |-> recCaps]>>,
             <<[data |-> recOther], [data |-> recOutlook]>> }}

\* response.data.Answer?.map(record => record.data) || []
mxRecordsOf(resp) ==
  IF resp.hasAnswer THEN [i \in DOMAIN resp.Answer |-> resp.Answer[i].data] ELSE <<>>

\* defect: the records are lower-cased before the test
hasOutlookAnyCase(mxRecords) ==
  \E i \in DOMAIN mxRecords : includes(toLowerCase(mxRecords[i]), outlookToken)

\* mxRecords.some(record => record.includes(".outlook"))
hasOutlook(mxRecords) ==
  \E i \in DOMAIN mxRecords : includes(mxRecords[i], outlookToken)

\* data.map(row => ({ ...row, normalizedDomain: normalizeDomain(row[domainColumn]) }))
\* idx is the identity of the object: the position of the line it was made from
normalizeRows(fields, rows, col) ==
  [i \in DOMAIN rows |->
     [idx |-> i,
      cells |-> rows[i],
      normalizedDomain |-> normalizeDomain(Get(fields, rows[i], col))]]

\* Object.keys(data[0] || {})
firstKeys(fields, rows) == IF rows = <<>> THEN <<>> ELSE Keys(fields, rows[1])

\* Object.keys of a normalized row: the spread keys, then normalizedDomain
normalizedKeys(fields, row) == Append(Keys(fields, row.cells), kNormalizedDomain)

\* Papa.unparse of an array of objects: the columns are the keys of the
\* first object, every object is written under those columns
unparse(fields, rows) ==
  LET columns == IF rows = <<>> THEN <<>> ELSE normalizedKeys(fields, rows[1])
      value(row, key) ==
        IF key = kNormalizedDomain THEN row.normalizedDomain
        ELSE Get(fields, row.cells, key)
  IN [fields |-> columns,
      lines |-> [i \in DOMAIN rows |->
                   [j \in DOMAIN columns |->
                      IF value(rows[i], columns[j]) = undefined THEN <<>>
                      ELSE value(rows[i], columns[j])]]]

NoData == [null |-> TRUE, fields |-> <<>>, rows |-> <<>>]
NoSave == [null |-> TRUE, fields |-> <<>>, lines |-> <<>>]
ErrNone == "null"
ErrNoColumn == "No domain column found"
ErrParse == "Error parsing the CSV file."

\* inputs of the normalizer: concatenations of at most MaxTokens tokens
Tokens == { tHttp, tHttps, tWww, <<"w">>, <<".">>, <<"a">>, <<"A">>, <<" ">>, <<"/">> }
RECURSIVE Concats(_)
Concats(n) ==
  IF n = 0 THEN {<<>>}
  ELSE Concats(n - 1) \cup {s \o t : s \in Concats(n - 1), t \in Tokens}
NormInputs == Concats(MaxTokens) \cup {undefined}

\* ------------------------------------------------------------------ state
VARIABLES
  variant,          \* which FileUpload source is deployed
  file, processedData, loading, error, filteredCount, showConfetti,  \* useState
  pc,               \* position of the processCSV run
  runFile,          \* the file the run's closure captured
  results,          \* the ParseResult last delivered, and the file it is of
  domainColumn, normalizedData, filteredData, filteredRecords,
  cur,              \* index of the row whose lookup is awaited
  requests,         \* the axios.get calls issued by the run, in order
  outstanding,      \* requests issued and not yet settled
  responses,        \* per row index, how its lookup settled
  saved,            \* the file last handed to saveAs
  uploads, runs,
  nIn, nStage, nOut, nOut2   \* normalizer harness

reactVars == <<file, processedData, loading, error, filteredCount, showConfetti>>
runVars == <<pc, runFile, results, domainColumn, normalizedData, filteredData,
             filteredRecords, cur, requests, outstanding, responses>>
normVars == <<nIn, nStage, nOut, nOut2>>
vars == <<variant, reactVars, runVars, saved, uploads, runs, normVars>>

InitApp ==
  /\ variant \in {1, 2}
  /\ file = NoFile
  /\ processedData = NoData
  /\ loading = FALSE
  /\ error = ErrNone
  /\ filteredCount = 0
  /\ showConfetti = FALSE
  /\ pc = "idle"
  /\ runFile = NoFile
  /\ results = NotRead
  /\ domainColumn = undefined
  /\ normalizedData = <<>>
  /\ filteredData = <<>>
  /\ filteredRecords = 0
  /\ cur = 0
  /\ requests = <<>>
  /\ outstanding = 0
  /\ responses = <<>>
  /\ saved = NoSave
  /\ uploads = 0
  /\ runs = 0

Init ==
  /\ InitApp
  /\ nIn = undefined /\ nStage = 0 /\ nOut = undefined /\ nOut2 = undefined

InitNorm ==
  /\ InitApp
  /\ nIn \in NormInputs /\ nStage = 0 /\ nOut = undefined /\ nOut2 = undefined

\* ---------------------------------------------------------------- actions
\* defect: selecting a file also clears loading
handleFileUploadClearsLoading(f) ==
  /\ uploads < MaxUploads
  /\ uploads' = uploads + 1
  /\ file' = (IF f THEN FileOf(uploads + 1) ELSE NoFile)
  /\ processedData' = NoData
  /\ error' = ErrNone
  /\ filteredCount' = 0
  /\ showConfetti' = FALSE
  /\ loading' = FALSE
  /\ UNCHANGED <<variant, runVars, saved, runs, normVars>>

\* onChange of the file input; f: whether e.target.files holds a file
handleFileUpload(f) ==
  /\ uploads < MaxUploads
  /\ uploads' = uploads + 1
  /\ file' = (IF f THEN FileOf(uploads + 1) ELSE NoFile)
  /\ processedData' = NoData
  /\ error' = ErrNone
  /\ filteredCount' = 0
  /\ showConfetti' = FALSE
  /\ UNCHANGED <<variant, loading, runVars, saved, runs, normVars>>

\* onClick of the Process button (disabled={!file || loading}), up to the
\* call of Papa.parse
processCSV ==
  /\ ~file.null
  /\ ~loading
  /\ runs < MaxRuns
  /\ runs' = runs + 1
  /\ loading' = TRUE
  /\ error' = ErrNone
  /\ pc' = "parsing"
  /\ runFile' = file
  /\ domainColumn' = undefined
  /\ normalizedData' = <<>>
  /\ filteredData' = <<>>
  /\ filteredRecords' = 0
  /\ cur' = 0
  /\ requests' = <<>>
  /\ outstanding' = 0
  /\ responses' = <<>>
  /\ UNCHANGED <<variant, file, processedData, filteredCount, showConfetti,
                 results, saved, uploads, normVars>>

\* defect: the loop lacks the `continue` for rows without a normalizedDomain
ContinueNoSkip(nData, k, fd, fr, out) ==
  LET nxt == k..Len(nData)
  IN /\ filteredData' = fd
     /\ filteredRecords' = fr
     /\ IF nxt # {}
          THEN LET j == CHOOSE i \in nxt : \A m \in nxt : i <= m
               IN /\ cur' = j
                  /\ requests' = Append(requests,
                        [idx |-> j, name |-> nData[j].normalizedDomain])
                  /\ outstanding' = out + 1
                  /\ pc' = "awaiting"
                  /\ UNCHANGED <<processedData, filteredCount, showConfetti, loading>>
          ELSE /\ cur' = Len(nData) + 1
               /\ requests' = requests
               /\ outstanding' = out
               /\ pc' = "done"
               /\ processedData' = [null |-> FALSE, fields |-> results'.fields, rows |-> fd]
               /\ filteredCount' = fr
               /\ showConfetti' = TRUE
               /\ loading' = FALSE

\* the for loop from row k on, up to its next await or to its end:
\* rows without a normalizedDomain are passed over, the next row with one
\* has its lookup issued; past the last row the result is published
Continue(nData, k, fd, fr, out) ==
  LET nxt == {j \in k..Len(nData) : Truthy(nData[j].normalizedDomain)}
  IN /\ filteredData' = fd
     /\ filteredRecords' = fr
     /\ IF nxt # {}
          THEN LET j == CHOOSE i \in nxt : \A m \in nxt : i <= m
               IN /\ cur' = j
                  /\ requests' = Append(requests,
                        [idx |-> j, name |-> nData[j].normalizedDomain])
                  /\ outstanding' = out + 1
                  /\ pc' = "awaiting"
                  /\ UNCHANGED <<processedData, filteredCount, showConfetti, loading>>
          ELSE /\ cur' = Len(nData) + 1
               /\ requests' = requests
               /\ outstanding' = out
               /\ pc' = "done"
               /\ processedData' = [null |-> FALSE, fields |-> results'.fields, rows |-> fd]
               /\ filteredCount' = fr
               /\ showConfetti' = TRUE
               /\ loading' = FALSE

\* defect: the branch for a missing column lacks its `return`
PapaCompleteNoReturn(c) ==
  /\ pc = "parsing"
  /\ results.id = runFile.id => (c.fields = results.fields /\ c.data = results.data)
  /\ results' = [id |-> runFile.id, fields |-> c.fields, data |-> c.data]
  /\ LET data == c.data
         col == findColumn(firstKeys(c.fields, data), NamesOf(variant))
         nData == normalizeRows(c.fields, data, col)
     IN /\ domainColumn' = col
        /\ error' = (IF ~Truthy(col) THEN ErrNoColumn ELSE error)
        /\ normalizedData' = nData
        /\ Continue(nData, 1, <<>>, 0, 0)
  /\ responses' = [i \in DOMAIN c.data |-> NoResponse]
  /\ UNCHANGED <<variant, file, runFile, saved, uploads, runs, normVars>>

\* Papa.parse's complete callback, up to its first await or its return
PapaComplete(c) ==
  /\ pc = "parsing"
  /\ results.id = runFile.id => (c.fields = results.fields /\ c.data = results.data)
  /\ results' = [id |-> runFile.id, fields |-> c.fields, data |-> c.data]
  /\ LET data == c.data
         col == findColumn(firstKeys(c.fields, data), NamesOf(variant))
         nData == normalizeRows(c.fields, data, col)
     IN /\ domainColumn' = col
        /\ IF ~Truthy(col)
             THEN /\ error' = ErrNoColumn
                  /\ loading' = FALSE
                  /\ pc' = "aborted"
                  /\ UNCHANGED <<normalizedData, filteredData, filteredRecords, cur,
                                 requests, outstanding, processedData,
                                 filteredCount, showConfetti>>
             ELSE /\ normalizedData' = nData
                  /\ Continue(nData, 1, <<>>, 0, 0)
                  /\ UNCHANGED error
  /\ responses' = [i \in DOMAIN c.data |-> NoResponse]
  /\ UNCHANGED <<variant, file, runFile, saved, uploads, runs, normVars>>

\* Papa.parse's error callback
PapaError ==
  /\ pc = "parsing"
  /\ error' = ErrParse
  /\ loading' = FALSE
  /\ pc' = "parseError"
  /\ UNCHANGED <<variant, file, processedData, filteredCount, showConfetti,
                 runFile, results, domainColumn, normalizedData,
                 filteredData, filteredRecords, cur, requests, outstanding,
                 responses, saved, uploads, runs, normVars>>

\* defect: the kept row is put at the front of filteredData
AxiosResolveUnshift(resp) ==
  /\ pc = "awaiting"
  /\ outstanding > 0
  /\ UNCHANGED <<variant, file, error, runFile, results, domainColumn,
                 normalizedData, saved, uploads, runs, normVars>>
  /\ responses' = [responses EXCEPT ![cur] = resp]
  /\ IF hasOutlook(mxRecordsOf(resp))
       THEN Continue(normalizedData, cur + 1, filteredData,
                     filteredRecords + 1, outstanding - 1)
       ELSE Continue(normalizedData, cur + 1, <<normalizedData[cur]>> \o filteredData,
                     filteredRecords, outstanding - 1)

\* the awaited axios.get resolves: the rest of the try block, then the loop
AxiosResolve(resp) ==
  /\ pc = "awaiting"
  /\ outstanding > 0
  /\ UNCHANGED <<variant, file, error, runFile, results, domainColumn,
                 normalizedData, saved, uploads, runs, normVars>>
  /\ responses' = [responses EXCEPT ![cur] = resp]
  /\ IF hasOutlook(mxRecordsOf(resp))
       THEN Continue(normalizedData, cur + 1, filteredData,
                     filteredRecords + 1, outstanding - 1)
       ELSE Continue(normalizedData, cur + 1, Append(filteredData, normalizedData[cur]),
                     filteredRecords, outstanding - 1)

\* defect: a rejected lookup leaves the loop
AxiosRejectBreaks ==
  /\ pc = "awaiting"
  /\ outstanding > 0
  /\ UNCHANGED <<variant, file, error, runFile, results, domainColumn,
                 normalizedData, saved, uploads, runs, normVars>>
  /\ responses' = [responses EXCEPT ![cur] = Rejected]
  /\ Continue(normalizedData, Len(normalizedData) + 1, filteredData, filteredRecords, outstanding - 1)

\* the awaited axios.get rejects: the catch block, then the loop
AxiosReject ==
  /\ pc = "awaiting"
  /\ outstanding > 0
  /\ UNCHANGED <<variant, file, error, runFile, results, domainColumn,
                 normalizedData, saved, uploads, runs, normVars>>
  /\ responses' = [responses EXCEPT ![cur] = Rejected]
  /\ Continue(normalizedData, cur + 1, filteredData, filteredRecords, outstanding - 1)

\* onClick of the Download button (rendered when processedData is set)
downloadCSV ==
  /\ ~processedData.null
  /\ saved' = [null |-> FALSE] @@ unparse(processedData.fields, processedData.rows)
  /\ UNCHANGED <<variant, reactVars, runVars, uploads, runs, normVars>>

\* normalizer harness: apply normalizeDomain, then apply it to its result
NormalizeOnce ==
  /\ nStage = 0
  /\ nOut' = normalizeDomain(nIn)
  /\ nStage' = 1
  /\ UNCHANGED <<variant, reactVars, runVars, saved, uploads, runs, nIn, nOut2>>

NormalizeTwice ==
  /\ nStage = 1
  /\ nOut2' = normalizeDomain(nOut)
  /\ nStage' = 2
  /\ UNCHANGED <<variant, reactVars, runVars, saved, uploads, runs, nIn, nOut>>

Upload == \E f \in BOOLEAN : handleFileUpload(f)
\* a file read again holds what it held
Parsed ==
  /\ pc = "parsing"
  /\ IF results.id = runFile.id
       THEN PapaComplete([fields |-> results.fields, data |-> results.data])
       ELSE \E c \in ParseResults : PapaComplete(c)
Resolve == pc = "awaiting" /\ \E resp \in Resolved : AxiosResolve(resp)

Next ==
  \/ Upload
  \/ processCSV
  \/ Parsed
  \/ PapaError
  \/ Resolve
  \/ AxiosReject
  \/ downloadCSV

Spec == Init /\ [][Next]_vars

\* the parser calls one of its callbacks, and every lookup settles: the two
\* callbacks of the parser are enabled in the same states, and so are the two
\* outcomes of a lookup, so a run cannot wait forever in either place
Fairness ==
  /\ WF_vars(PapaError)
  /\ WF_vars(AxiosReject)

SpecFair == Init /\ [][Next]_vars /\ Fairness

NextNorm ==
  \/ NormalizeOnce
  \/ NormalizeTwice

SpecNorm == InitNorm /\ [][NextNorm]_vars

\* ----------------------------------------------------------------- claims
\* the run has completed and its result is the published one
Finished == pc = "done" /\ ~processedData.null

\* row i of the run carries a normalizedDomain
Present(i) == Truthy(normalizedData[i].normalizedDomain)

IdxOf(rows) == {rows[k].idx : k \in DOMAIN rows}

\* the MX answer delivered for row i holds a record containing ".outlook"
AnswerHasOutlook(i) ==
  /\ responses[i].status = "resolved"
  /\ responses[i].hasAnswer
  /\ \E k \in DOMAIN responses[i].Answer :
        includes(responses[i].Answer[k].data, outlookToken)

\* C1: every row whose MX lookup was rejected is in the published kept set,
\* and the removed count counts only the rows answered with an Outlook record.
C1_FailedRowKept ==
  Finished =>
    /\ \A i \in DOMAIN responses :
         responses[i].status = "rejected" => i \in IdxOf(processedData.rows)
    /\ filteredCount = Cardinality({i \in DOMAIN responses : AnswerHasOutlook(i)})

\* C2: a row whose lookup was answered is excluded (counted once, not kept)
\* exactly when one of its own MX records contains ".outlook", matched
\* case-sensitively; an answered row without such a record is kept.
C2_ExcludedIffOutlook ==
  Finished =>
    /\ \A i \in DOMAIN responses :
         responses[i].status = "resolved" =>
           (i \notin IdxOf(processedData.rows) <=> AnswerHasOutlook(i))
    /\ filteredCount = Cardinality({i \in DOMAIN responses : AnswerHasOutlook(i)})

C2_Witness ==
  /\ Finished
  /\ \E i, j \in DOMAIN responses :
       /\ AnswerHasOutlook(i) /\ i \notin IdxOf(processedData.rows)
       /\ responses[j].status = "resolved" /\ ~AnswerHasOutlook(j)
       /\ responses[j].Answer # <<>>
       /\ j \in IdxOf(processedData.rows)
  /\ filteredCount = 1

\* C3: a row without a normalizedDomain gets no lookup, is not kept and is
\* not counted; so a completed run has removed + kept <= rows, strictly
\* fewer when such a row exists.
C3_AbsentSkipped ==
  /\ \A i \in DOMAIN normalizedData :
       ~Present(i) =>
         /\ \A k \in DOMAIN requests : requests[k].idx # i
         /\ responses[i] = NoResponse
         /\ i \notin IdxOf(filteredData)
  /\ Finished =>
       /\ filteredCount + Len(processedData.rows) <= Len(results.data)
       /\ \A i \in DOMAIN normalizedData :
            ~Present(i) =>
              /\ i \notin IdxOf(processedData.rows)
              /\ filteredCount + Len(processedData.rows) < Len(results.data)

C3_Witness ==
  /\ Finished
  /\ Len(results.data) = 2
  /\ ~Present(1) /\ Present(2)
  /\ Len(requests) = 1
  /\ filteredCount + Len(processedData.rows) = 1

\* no key of the header is, lower-cased, in the deployed list
NoHeaderMatch(header) ==
  \A i \in DOMAIN header :
    ~arrayIncludes(NamesOf(variant), toLowerCase(header[i]))

\* C4: when the parsed file's header has no key in the synonym list, the
\* complete callback sets an error, clears loading, issues no lookup and
\* leaves the kept set and the removed count as they were.
C4_NoColumnAborts ==
  [][(/\ pc = "parsing"
      /\ pc' \notin {"parsing", "parseError"}
      /\ NoHeaderMatch(results'.fields))
     => (/\ pc' = "aborted"
         /\ error' # ErrNone
         /\ ~loading'
         /\ requests' = <<>>
         /\ outstanding' = 0
         /\ processedData' = processedData
         /\ filteredCount' = filteredCount)]_vars

C4_Witness ==
  /\ pc = "aborted"
  /\ results.id = runFile.id
  /\ results.data # <<>>
  /\ NoHeaderMatch(results.fields)
  /\ error = ErrNoColumn
  /\ ~loading
  /\ requests = <<>>

\* the first key of the header that equals some synonym of the deployed
\* list when case is ignored, undefined if there is none
FirstKeyIgnoringCase(header) ==
  LET names == NamesOf(variant)
      hit == {i \in DOMAIN header :
                \E n \in DOMAIN names : toLowerCase(names[n]) = toLowerCase(header[i])}
  IN IF hit = {} THEN undefined
     ELSE header[CHOOSE i \in hit : \A j \in hit : i <= j]

\* C5: for a file whose first line carries every header key, the detected
\* column is the first header key matching a synonym of the list with case
\* ignored (for Name, Company Website, Domain: Company Website).
C5_FirstMatchIgnoringCase ==
  (/\ pc \in {"awaiting", "done", "aborted"}
   /\ firstKeys(results.fields, results.data) = results.fields)
  => domainColumn = FirstKeyIgnoringCase(results.fields)

\* C6: the kept rows are input rows, each at most once, in input order.
IsOrderedSubsequence(rows) ==
  /\ \A k \in DOMAIN rows :
       /\ rows[k].idx \in DOMAIN results.data
       /\ rows[k].cells = results.data[rows[k].idx]
  /\ \A k, m \in DOMAIN rows : k < m => rows[k].idx < rows[m].idx

C6_KeptIsSubsequence ==
  /\ pc \in {"awaiting", "done"} => IsOrderedSubsequence(filteredData)
  /\ Finished => IsOrderedSubsequence(processedData.rows)

C6_Witness ==
  /\ Finished
  /\ Len(processedData.rows) = 2
  /\ \E i \in DOMAIN responses : responses[i].status = "resolved"

\* C7: the columns of a saved file are exactly the keys of an input header;
\* normalizedDomain is not among them.
C7_ExportHasHeaderColumns ==
  (~saved.null /\ saved.lines # <<>>) =>
    /\ \A j \in DOMAIN saved.fields : saved.fields[j] # kNormalizedDomain
    /\ \E h \in Headers :
         {saved.fields[j] : j \in DOMAIN saved.fields} = {h[j] : j \in DOMAIN h}

\* C8: normalizing a normalized value changes nothing.
C8_Idempotent == nStage = 2 => nOut2 = nOut

\* C9: lookups go out one at a time, in row order, once per row with a
\* normalizedDomain; a lookup is issued only when every earlier one has
\* settled, and a rejected lookup does not stop the later ones.
C9_SequentialLookups ==
  /\ outstanding <= 1
  /\ outstanding = 1 <=> pc = "awaiting"
  /\ \A k, m \in DOMAIN requests : k < m => requests[k].idx < requests[m].idx
  /\ \A k \in DOMAIN requests :
       /\ requests[k].idx \in DOMAIN normalizedData
       /\ Present(requests[k].idx)
       /\ requests[k].name = normalizedData[requests[k].idx].normalizedDomain
       /\ (k < Len(requests) \/ pc # "awaiting")
            <=> responses[requests[k].idx].status # "none"
  /\ pc = "done" =>
       {requests[k].idx : k \in DOMAIN requests}
         = {i \in DOMAIN normalizedData : Present(i)}

C9_Witness ==
  /\ pc = "done"
  /\ Len(requests) = 2
  /\ responses[requests[1].idx].status = "rejected"
  /\ responses[requests[2].idx].status = "resolved"

\* C10: while a file is selected, a published kept set or removed count
\* belongs to a run on that file.
C10_PublishedIsOfSelectedFile ==
  (~file.null /\ (~processedData.null \/ filteredCount # 0)) => runFile = file

\* a run is in flight: started, and neither callback path has ended it
InFlight == pc \in {"parsing", "awaiting"}

====
